---- MODULE Spec2Model ----
(***************************************************************************)
(* Model of yb/yql/pggate/pg_doc_op.cc: the document-operation execution   *)
(* core (PgDocOp, PgDocReadOp, PgDocWriteOp).                              *)
(*                                                                         *)
(* Three threads act on one op: the consumer (Execute, GetResult,          *)
(* EndOfResult), a canceller (AbortAndWait) and the storage session's I/O  *)
(* thread (ReceiveResponse).  Everything a method does while it holds mtx_ *)
(* is one atomic step; a method is split where it releases the mutex       *)
(* (cv_.wait) and, in Execute, between the unlocked read of is_canceled_   *)
(* and the acquisition of the mutex.                                       *)
(***************************************************************************)
EXTENDS Integers, Naturals, Sequences, FiniteSets, TLC

\* ------------------------------------------------------------------ bounds
MaxPages == 1   \* paging continuations one sub-request may receive
MaxLimit == 2   \* largest FLAGS_ysql_prefetch_limit and LIMIT count tried

\* ------------------------------------------------------------------ flags
\* The ceiling on the live sub-requests of one read op.
FLAGS_ysql_request_limit == 2

VARIABLES
  kind,                    \* "read" (PgDocReadOp) or "write" (PgDocWriteOp)
  part_cols,               \* template request: operand-list length per hash column
  is_forward_scan,         \* template request: is_forward_scan()
  fail_responses,          \* the failed responses the storage layer gives in this run
  FLAGS_ysql_prefetch_limit,
  FLAGS_ysql_backward_prefetch_scale_factor,   \* a fraction [num, den]
  exec_params_,
  template_op_,            \* template request: limit and row_mark_type
  is_canceled_,
  waiting_for_response_,
  exec_status_,
  end_of_data_,
  has_cached_data_,
  result_cache_,
  rows_affected_count_,
  read_ops_,
  partition_exprs_,
  next_op_idx_,
  can_produce_more_ops_,
  callback,                \* accepted flushes whose callback has not run yet
  cpc,                     \* consumer thread: "idle", "exec_lock", "exec_wait", "fetch_wait"
  apc,                     \* canceller thread: "idle", "wait", "returned"
  out_blob,                \* the caller's *result_set
  ret,                     \* what the last finished Execute or GetResult returned
  crashed,                 \* the CHECK that terminated the process, or "no"
  owed,                    \* history: the rows-blobs the responses carried that no
                           \*   GetResult has returned yet, oldest first
  stray,                   \* history: a GetResult returned a blob other than the
                           \*   oldest owed one
  run                      \* history: "new" before the first call; "scan" once
                           \*   Execute was called first, while it was called once
                           \*   and nothing failed or was cancelled; else "other"

opvars   == <<is_canceled_, waiting_for_response_, exec_status_, end_of_data_,
              has_cached_data_, result_cache_, rows_affected_count_, read_ops_,
              partition_exprs_, next_op_idx_, can_produce_more_ops_, callback,
              crashed, exec_params_, template_op_>>
envvars  == <<kind, part_cols, is_forward_scan, fail_responses, FLAGS_ysql_prefetch_limit,
              FLAGS_ysql_backward_prefetch_scale_factor>>
thrvars  == <<cpc, apc, out_blob, ret>>
histvars == <<owed, stray, run>>
vars     == <<envvars, opvars, thrvars, histvars>>

\* ------------------------------------------------------------------ values
Empty == <<>>                                  \* the empty string

OkStatus == [code |-> "OK", msg |-> "", pg |-> "-", txn |-> "-"]
Err(code, msg) == [code |-> code, msg |-> msg, pg |-> "-", txn |-> "-"]
IsOk(st) == st.code = "OK"

Canceled == Err("IllegalState", "Operation canceled")

\* Statuses the storage session can hand to the flush callback.
FlushStatuses == {OkStatus, Err("NetworkError", "flush")}

\* Outcomes of PgApplyAsync + PgFlushAsync for one dispatch.
SendOutcomes == {"sent", "apply_error", "buffered", "flush_error"}

\* One sub-request's response (PgsqlResponsePB and rows_data()).
OkResponses ==
  [status: {"OK"}, msg: {""}, pg: {"absent"}, txn: {"absent"},
   rows: BOOLEAN, paging: BOOLEAN, affected: {0, 1}]
FailResponses ==
  {[status |-> "DUPLICATE_KEY_ERROR", msg |-> "dup", pg |-> "UNIQUE_VIOLATION",
    txn |-> "absent", rows |-> FALSE, paging |-> FALSE, affected |-> 0],
   [status |-> "RUNTIME_ERROR", msg |-> "err", pg |-> "absent",
    txn |-> "kConflict", rows |-> FALSE, paging |-> FALSE, affected |-> 0]}
\* Every failed response: either status, with or without a pg_error_code
\* and a txn_error_code.
AllFailResponses ==
  [status: {"DUPLICATE_KEY_ERROR", "RUNTIME_ERROR"}, msg: {"dup"},
   pg: {"absent", "UNIQUE_VIOLATION"}, txn: {"absent", "kConflict"},
   rows: {FALSE}, paging: {FALSE}, affected: {0}]
     \cup FailResponses
Responses == OkResponses \cup fail_responses

Succeeded(resp) == resp.status = "OK"

\* rows_data() of the response to sub-request op: a blob named after the
\* sub-request and its page, or the empty string.
RowsData(op, resp) ==
  IF resp.rows THEN <<[perm |-> op.perm, page |-> op.page]>> ELSE Empty


\* ------------------------------------------------------------------ op state
\* The fields of the op as one record, so that a method which calls several
\* helpers under the mutex is the composition of their effects.
Cur ==
  [is_canceled_           |-> is_canceled_,
   waiting_for_response_  |-> waiting_for_response_,
   exec_status_           |-> exec_status_,
   end_of_data_           |-> end_of_data_,
   has_cached_data_       |-> has_cached_data_,
   result_cache_          |-> result_cache_,
   rows_affected_count_   |-> rows_affected_count_,
   read_ops_              |-> read_ops_,
   partition_exprs_       |-> partition_exprs_,
   next_op_idx_           |-> next_op_idx_,
   can_produce_more_ops_  |-> can_produce_more_ops_,
   callback               |-> callback,
   crashed                |-> crashed,
   exec_params_           |-> exec_params_,
   template_op_           |-> template_op_]

Commit(s) ==
  /\ is_canceled_'          = s.is_canceled_
  /\ waiting_for_response_' = s.waiting_for_response_
  /\ exec_status_'          = s.exec_status_
  /\ end_of_data_'          = s.end_of_data_
  /\ has_cached_data_'      = s.has_cached_data_
  /\ result_cache_'         = s.result_cache_
  /\ rows_affected_count_'  = s.rows_affected_count_
  /\ read_ops_'             = s.read_ops_
  /\ partition_exprs_'      = s.partition_exprs_
  /\ next_op_idx_'          = s.next_op_idx_
  /\ can_produce_more_ops_' = s.can_produce_more_ops_
  /\ callback'              = s.callback
  /\ crashed'               = s.crashed
  /\ exec_params_'          = s.exec_params_
  /\ template_op_'          = s.template_op_

\* A failed CHECK terminates the process.
Crash(s, what) == [s EXCEPT !.crashed = what]

\* ------------------------------------------------------------------ PgDocOp
\* InitUnlocked without result_cache_.clear() (line 100).
InitUnlocked_KeepsCache(s) ==
  [s EXCEPT !.end_of_data_ = FALSE]

\* PgDocOp::InitUnlocked, lines 100-102 (the CHECK and the wait of lines
\* 91-99 are in ExecuteLocked and ExecuteResume).
InitUnlocked(s) ==
  [s EXCEPT !.result_cache_ = <<>>,
            !.end_of_data_ = FALSE,
            !.has_cached_data_ = FALSE]

\* WriteToCacheUnlocked with push_front for push_back.
WriteToCacheUnlocked_PushFront(s, rows) ==
  IF rows # Empty
    THEN LET c == <<rows>> \o s.result_cache_
         IN [s EXCEPT !.result_cache_ = c, !.has_cached_data_ = (c # <<>>)]
    ELSE s

\* PgDocOp::WriteToCacheUnlocked: rows is yb_op->rows_data().
WriteToCacheUnlocked(s, rows) ==
  IF rows # Empty
    THEN LET c == Append(s.result_cache_, rows)
         IN [s EXCEPT !.result_cache_ = c, !.has_cached_data_ = (c # <<>>)]
    ELSE s

\* ReadFromCacheUnlocked clearing end_of_data_ with the blob it takes.
ReadFromCacheUnlocked_ResetsEnd(s, result) ==
  IF s.result_cache_ # <<>>
    THEN LET c == Tail(s.result_cache_)
         IN [s   |-> [s EXCEPT !.result_cache_ = c, !.has_cached_data_ = (c # <<>>),
                               !.end_of_data_ = FALSE],
             out |-> Head(s.result_cache_)]
    ELSE [s |-> s, out |-> result]

\* ReadFromCacheUnlocked without line 144.
ReadFromCacheUnlocked_StaleFlag(s, result) ==
  IF s.result_cache_ # <<>>
    THEN [s   |-> [s EXCEPT !.result_cache_ = Tail(@)],
          out |-> Head(s.result_cache_)]
    ELSE [s |-> s, out |-> result]

\* PgDocOp::ReadFromCacheUnlocked: result is *result before the call.
ReadFromCacheUnlocked(s, result) ==
  IF s.result_cache_ # <<>>
    THEN LET c == Tail(s.result_cache_)
         IN [s   |-> [s EXCEPT !.result_cache_ = c, !.has_cached_data_ = (c # <<>>)],
             out |-> Head(s.result_cache_)]
    ELSE [s |-> s, out |-> result]

\* HandleResponseStatus without the branch of lines 173-176.
HandleResponseStatus_NoDuplicateKey(st, resp) ==
  IF Succeeded(resp)
    THEN st
    ELSE [code |-> "QLError",
          msg  |-> resp.msg,
          pg   |-> IF resp.pg # "absent" THEN resp.pg ELSE "INTERNAL_ERROR",
          txn  |-> IF resp.txn # "absent" THEN resp.txn ELSE "kNone"]

\* PgDocOp::HandleResponseStatus: the value of exec_status_ afterwards.
HandleResponseStatus(st, resp) ==
  IF Succeeded(resp)
    THEN st
    ELSE [code |-> IF resp.status = "DUPLICATE_KEY_ERROR"
                     THEN "AlreadyPresent" ELSE "QLError",
          msg  |-> resp.msg,
          pg   |-> IF resp.pg # "absent" THEN resp.pg ELSE "INTERNAL_ERROR",
          txn  |-> IF resp.txn # "absent" THEN resp.txn ELSE "kNone"]

\* ------------------------------------------------------------------ PgDocReadOp
\* total_op_count of InitializeNextOps (lines 265-268).
RECURSIVE TotalOpCount(_)
TotalOpCount(exprs) ==
  IF exprs = <<>> THEN 1
  ELSE Head(exprs) * TotalOpCount(Tail(exprs))

\* Lines 279-285 filling the columns from the first one up.
RECURSIVE SelectPermutation_FirstLeast(_, _, _)
SelectPermutation_FirstLeast(pos, exprs, c) ==
  IF c = 0 THEN <<>>
  ELSE <<pos % exprs[Len(exprs) - c + 1]>>
         \o SelectPermutation_FirstLeast(pos \div exprs[Len(exprs) - c + 1], exprs, c - 1)

\* The permutation selected for position pos (lines 279-285): columns are
\* filled from the last one down, pos % size then pos /= size.
RECURSIVE SelectPermutation(_, _, _)
SelectPermutation(pos, exprs, c) ==
  IF c = 0 THEN <<>>
  ELSE Append(SelectPermutation(pos \div exprs[c], exprs, c - 1), pos % exprs[c])

\* The while loop of InitializeNextOps without the test of num_ops.
RECURSIVE UnrollOps_NoLimit(_, _, _)
UnrollOps_NoLimit(s, num_ops, total_op_count) ==
  IF s.next_op_idx_ < total_op_count
    THEN LET read_op == [perm |-> SelectPermutation(s.next_op_idx_, s.partition_exprs_,
                                                    Len(s.partition_exprs_)),
                         page |-> 0]
         IN UnrollOps_NoLimit([s EXCEPT !.read_ops_ = Append(@, read_op),
                                        !.next_op_idx_ = @ + 1],
                              num_ops - 1, total_op_count)
    ELSE s

\* The while loop of InitializeNextOps (lines 270-290).
RECURSIVE UnrollOps(_, _, _)
UnrollOps(s, num_ops, total_op_count) ==
  IF num_ops > 0 /\ s.next_op_idx_ < total_op_count
    THEN LET read_op == [perm |-> SelectPermutation(s.next_op_idx_, s.partition_exprs_,
                                                    Len(s.partition_exprs_)),
                         page |-> 0]
         IN UnrollOps([s EXCEPT !.read_ops_ = Append(@, read_op),
                                !.next_op_idx_ = @ + 1],
                      num_ops - 1, total_op_count)
    ELSE s

\* PgDocReadOp::InitializeNextOps.
InitializeNextOps(s, num_ops) ==
  IF num_ops <= 0 THEN s
  ELSE IF Len(part_cols) = 0
    THEN [s EXCEPT !.read_ops_ = Append(@, [perm |-> <<>>, page |-> 0]),
                   !.can_produce_more_ops_ = FALSE]
    ELSE LET s1 == IF s.partition_exprs_ = <<>>
                     THEN [s EXCEPT !.partition_exprs_ = part_cols] ELSE s
             total_op_count == TotalOpCount(s1.partition_exprs_)
             s2 == UnrollOps(s1, num_ops, total_op_count)
         IN IF s2.next_op_idx_ = total_op_count
              THEN [s2 EXCEPT !.can_produce_more_ops_ = FALSE]
              ELSE s2

\* int(x * scale): the product is a double and the conversion to int
\* truncates toward zero (line 211).
Scaled(x, scale) ==
  LET n == x * scale.num
  IN IF n >= 0 THEN n \div scale.den ELSE -((-n) \div scale.den)

\* predicted_limit after lines 208-218 without the floor of lines 216-218.
PredictedLimit_NoFloor ==
  IF is_forward_scan THEN FLAGS_ysql_prefetch_limit
  ELSE Scaled(FLAGS_ysql_prefetch_limit, FLAGS_ysql_backward_prefetch_scale_factor)

\* predicted_limit after lines 208-218.
PredictedLimit ==
  LET predicted_limit ==
        IF is_forward_scan THEN FLAGS_ysql_prefetch_limit
        ELSE Scaled(FLAGS_ysql_prefetch_limit, FLAGS_ysql_backward_prefetch_scale_factor)
  IN IF predicted_limit < 1 THEN 1 ELSE predicted_limit

\* PgDocReadOp::SetRequestPrefetchLimit.
SetRequestPrefetchLimit(s) ==
  LET predicted_limit == PredictedLimit
      limit_count == s.exec_params_.limit_count + s.exec_params_.limit_offset
  IN [s EXCEPT !.template_op_.limit =
        IF s.exec_params_.limit_use_default \/ limit_count > predicted_limit
          THEN predicted_limit ELSE limit_count]

\* PgDocReadOp::SetRowMark.
SetRowMark(s) ==
  [s EXCEPT !.template_op_.row_mark_type =
     IF s.exec_params_.rowmark < 0 THEN "absent" ELSE s.exec_params_.rowmark]

\* PgDocReadOp::SendRequestUnlocked; o is what the storage session answers.
\* The result is the op afterwards and the Status returned.
ReadSendRequestUnlocked(s, o) ==
  IF s.waiting_for_response_
    THEN [s |-> Crash(s, "CHECK(!waiting_for_response_)"), st |-> OkStatus]
  ELSE IF ~(s.read_ops_ # <<>> \/ s.can_produce_more_ops_)
    THEN [s |-> Crash(SetRowMark(SetRequestPrefetchLimit(s)),
                      "CHECK(!read_ops_.empty() || can_produce_more_ops_)"),
          st |-> OkStatus]
  ELSE
    LET s0 == SetRowMark(SetRequestPrefetchLimit(s))
        s1 == IF s0.can_produce_more_ops_
                THEN InitializeNextOps(s0, FLAGS_ysql_request_limit - Len(s0.read_ops_))
                ELSE s0
    IN CASE o = "apply_error" -> [s |-> s1, st |-> Err("NetworkError", "apply")]
         [] o = "buffered"    ->
              [s |-> s1,
               st |-> Err("IllegalState", "YSQL read operation should not be buffered")]
         [] o = "flush_error" ->
              [s |-> [s1 EXCEPT !.waiting_for_response_ = FALSE],
               st |-> Err("NetworkError", "flush")]
         [] OTHER ->
              [s |-> [s1 EXCEPT !.waiting_for_response_ = TRUE, !.callback = @ + 1],
               st |-> OkStatus]

\* ------------------------------------------------------------------ PgDocWriteOp
\* PgDocWriteOp::SendRequestUnlocked without the early return of lines
\* 402-404: a buffered write is flushed like any other.
WriteSendRequestUnlocked_FlushBuffered(s, o) ==
  IF s.waiting_for_response_
    THEN [s |-> Crash(s, "CHECK(!waiting_for_response_)"), st |-> OkStatus]
  ELSE
    CASE o = "apply_error" -> [s |-> s, st |-> Err("NetworkError", "apply")]
      [] o = "flush_error" ->
           [s |-> [s EXCEPT !.waiting_for_response_ = FALSE],
            st |-> Err("NetworkError", "flush")]
      [] OTHER ->
           [s |-> [s EXCEPT !.waiting_for_response_ = TRUE, !.callback = @ + 1],
            st |-> OkStatus]

\* PgDocWriteOp::SendRequestUnlocked.
WriteSendRequestUnlocked(s, o) ==
  IF s.waiting_for_response_
    THEN [s |-> Crash(s, "CHECK(!waiting_for_response_)"), st |-> OkStatus]
  ELSE
    CASE o = "apply_error" -> [s |-> s, st |-> Err("NetworkError", "apply")]
      [] o = "buffered"    -> [s |-> s, st |-> OkStatus]
      [] o = "flush_error" ->
           [s |-> [s EXCEPT !.waiting_for_response_ = FALSE],
            st |-> Err("NetworkError", "flush")]
      [] OTHER ->
           [s |-> [s EXCEPT !.waiting_for_response_ = TRUE, !.callback = @ + 1],
            st |-> OkStatus]

\* The virtual SendRequestUnlocked of the op.
SendRequestUnlocked(s, o) ==
  IF kind = "read" THEN ReadSendRequestUnlocked(s, o)
  ELSE WriteSendRequestUnlocked(s, o)

\* SendRequestIfNeededUnlocked without the test of waiting_for_response_.
SendRequestIfNeededUnlocked_NoWaitTest(s, o) ==
  IF ~s.has_cached_data_ /\ ~s.end_of_data_
    THEN SendRequestUnlocked(s, o)
    ELSE [s |-> s, st |-> OkStatus]

\* PgDocOp::SendRequestIfNeededUnlocked.
SendRequestIfNeededUnlocked(s, o) ==
  IF ~s.has_cached_data_ /\ ~s.end_of_data_ /\ ~s.waiting_for_response_
    THEN SendRequestUnlocked(s, o)
    ELSE [s |-> s, st |-> OkStatus]


\* ------------------------------------------------------------------ responses
\* The loop of lines 337-341 looking at the first sub-request only.
HandleAll_FirstOnly(st, resps) ==
  IF resps = <<>> THEN st
  ELSE HandleResponseStatus(st, Head(resps))

\* exec_status_ after the loop of lines 337-341 over read_ops_.
RECURSIVE HandleAll(_, _)
HandleAll(st, resps) ==
  IF resps = <<>> THEN st
  ELSE HandleAll(HandleResponseStatus(st, Head(resps)), Tail(resps))

\* The loop of lines 351-353.
RECURSIVE CacheAll(_, _, _)
CacheAll(s, ops, resps) ==
  IF ops = <<>> THEN s
  ELSE CacheAll(WriteToCacheUnlocked(s, RowsData(Head(ops), Head(resps))),
                Tail(ops), Tail(resps))

\* The loop of lines 357-381: a sub-request whose response has a paging
\* state is kept, with that state installed; the others are erased.
RECURSIVE Survivors(_, _)
Survivors(ops, resps) ==
  IF ops = <<>> THEN <<>>
  ELSE IF Head(resps).paging
    THEN <<[Head(ops) EXCEPT !.page = @ + 1]>> \o Survivors(Tail(ops), Tail(resps))
    ELSE Survivors(Tail(ops), Tail(resps))

\* PgDocReadOp::ReceiveResponse without the test of is_canceled_ (line 349).
ReadReceiveResponse_NoCancelTest(s, exec_status, resps) ==
  IF ~s.waiting_for_response_
    THEN Crash(s, "CHECK(waiting_for_response_)")
  ELSE
    LET s1 == [s EXCEPT !.waiting_for_response_ = FALSE,
                        !.callback = @ - 1,
                        !.exec_status_ = IF IsOk(exec_status)
                                           THEN HandleAll(exec_status, resps)
                                           ELSE exec_status]
    IN IF ~IsOk(s1.exec_status_)
         THEN [s1 EXCEPT !.end_of_data_ = TRUE]
       ELSE LET s2 == CacheAll(s1, s1.read_ops_, resps)
                ops == Survivors(s1.read_ops_, resps)
            IN [s2 EXCEPT !.read_ops_ = ops,
                          !.end_of_data_ = (ops = <<>> /\ ~s2.can_produce_more_ops_)]

\* PgDocReadOp::ReceiveResponse; resps[i] is the response of read_ops_[i].
ReadReceiveResponse(s, exec_status, resps) ==
  IF ~s.waiting_for_response_
    THEN Crash(s, "CHECK(waiting_for_response_)")
  ELSE
    LET s1 == [s EXCEPT !.waiting_for_response_ = FALSE,
                        !.callback = @ - 1,
                        !.exec_status_ = IF IsOk(exec_status)
                                           THEN HandleAll(exec_status, resps)
                                           ELSE exec_status]
    IN IF ~IsOk(s1.exec_status_)
         THEN [s1 EXCEPT !.end_of_data_ = TRUE]
       ELSE IF ~s1.is_canceled_
         THEN LET s2 == CacheAll(s1, s1.read_ops_, resps)
                  ops == Survivors(s1.read_ops_, resps)
              IN [s2 EXCEPT !.read_ops_ = ops,
                            !.end_of_data_ = (ops = <<>> /\ ~s2.can_produce_more_ops_)]
         ELSE [s1 EXCEPT !.end_of_data_ = TRUE]

\* The write request of a PgDocWriteOp, seen as a sub-request.
write_op_ == [perm |-> <<>>, page |-> 0]

\* PgDocWriteOp::ReceiveResponse.
WriteReceiveResponse(s, exec_status, resps) ==
  IF ~s.waiting_for_response_
    THEN Crash(s, "CHECK(waiting_for_response_)")
  ELSE
    LET s1 == [s EXCEPT !.waiting_for_response_ = FALSE,
                        !.callback = @ - 1,
                        !.exec_status_ = IF IsOk(exec_status)
                                           THEN HandleResponseStatus(exec_status, resps[1])
                                           ELSE exec_status]
        s2 == IF ~s1.is_canceled_ /\ IsOk(s1.exec_status_)
                THEN [WriteToCacheUnlocked(s1, RowsData(write_op_, resps[1]))
                        EXCEPT !.rows_affected_count_ = resps[1].affected]
                ELSE s1
    IN [s2 EXCEPT !.end_of_data_ = TRUE]

\* The responses the storage layer can give to the requests of one flush.
ReadResponsesOf(op) ==
  {r \in Responses : r.affected = 0 /\ (r.paging => op.page < MaxPages)}
WriteResponses == {r \in Responses : ~r.paging}

BatchResponses ==
  IF kind = "read"
    THEN {b \in [1 .. Len(read_ops_) -> {r \in Responses : r.affected = 0}] :
            \A i \in 1 .. Len(read_ops_) : b[i] \in ReadResponsesOf(read_ops_[i])}
    ELSE {<<r>> : r \in WriteResponses}

\* The non-empty rows-blobs of one batch, in the order of the requests.
RECURSIVE BlobsOf(_, _)
BlobsOf(ops, resps) ==
  IF ops = <<>> THEN <<>>
  ELSE (IF Head(resps).rows THEN <<RowsData(Head(ops), Head(resps))>> ELSE <<>>)
         \o BlobsOf(Tail(ops), Tail(resps))

\* ------------------------------------------------------------------ threads
Running == crashed = "no"

Return(call, st, val) == [call |-> call, status |-> st, val |-> val]


\* ------------------------------------------------------------------ Init
\* The predicates of the read: no hash column, a IN (v1, v2), and
\* a IN (v1, v2) AND b IN (w1, w2, w3).
PartitionColumns == {<<>>, <<2>>, <<2, 3>>}

\* What the constructor leaves in exec_params_ (lines 37-39); rowmark keeps
\* the default of PgExecParameters, none.
InitialExecParams ==
  [limit_count |-> FLAGS_ysql_prefetch_limit, limit_offset |-> 0,
   limit_use_default |-> TRUE, rowmark |-> -1]

\* The template request as NewPgsqlSelect() makes it: no limit, no row mark.
InitialTemplate == [limit |-> 0, row_mark_type |-> "absent"]

\* The op after construction, whatever the request and the flags are.
InitOp ==
  /\ is_canceled_ = FALSE
  /\ waiting_for_response_ = FALSE
  /\ exec_status_ = OkStatus
  /\ end_of_data_ = FALSE
  /\ has_cached_data_ = FALSE
  /\ result_cache_ = <<>>
  /\ rows_affected_count_ = 0
  /\ read_ops_ = <<>>
  /\ partition_exprs_ = <<>>
  /\ next_op_idx_ = 0
  /\ can_produce_more_ops_ = TRUE
  /\ callback = 0
  /\ exec_params_ = InitialExecParams
  /\ template_op_ = InitialTemplate
  /\ cpc = "idle"
  /\ apc = "idle"
  /\ out_blob = Empty
  /\ ret = Return("none", OkStatus, FALSE)
  /\ crashed = "no"
  /\ owed = <<>>
  /\ stray = FALSE
  /\ run = "new"

Init ==
  /\ kind \in {"read", "write"}
  /\ part_cols \in PartitionColumns
  /\ kind = "write" => part_cols = <<>>
  /\ is_forward_scan = TRUE
  /\ fail_responses = FailResponses
  /\ FLAGS_ysql_prefetch_limit = MaxLimit
  /\ FLAGS_ysql_backward_prefetch_scale_factor = [num |-> 1, den |-> 2]
  /\ exec_params_ = InitialExecParams
  /\ template_op_ = InitialTemplate
  /\ is_canceled_ = FALSE
  /\ waiting_for_response_ = FALSE
  /\ exec_status_ = OkStatus
  /\ end_of_data_ = FALSE
  /\ has_cached_data_ = FALSE
  /\ result_cache_ = <<>>
  /\ rows_affected_count_ = 0
  /\ read_ops_ = <<>>
  /\ partition_exprs_ = <<>>
  /\ next_op_idx_ = 0
  /\ can_produce_more_ops_ = TRUE
  /\ callback = 0
  /\ cpc = "idle"
  /\ apc = "idle"
  /\ out_blob = Empty
  /\ ret = Return("none", OkStatus, FALSE)
  /\ crashed = "no"
  /\ owed = <<>>
  /\ stray = FALSE
  /\ run = "new"

\* ------------------------------------------------------------------ histories
\* The sequence of blobs the responses carried and the sequence of blobs
\* GetResult returned are compared as they grow: owed is the first without
\* its prefix already returned, stray records a returned blob that was not
\* the next one owed.  They are kept for a run in which Execute was called
\* first and once, nothing failed and nothing was cancelled; any other run
\* drops them.
Clean == run \in {"new", "scan"}

\* run after a call or a callback that returned or left status st.
After(st) == IF run = "scan" /\ IsOk(st) THEN "scan" ELSE "other"

Record(o, s) ==
  /\ owed'  = IF Clean' THEN o ELSE <<>>
  /\ stray' = IF Clean' THEN s ELSE FALSE

\* The responses of one round carried blobs.
Produce(blobs) == Record(owed \o blobs, stray)

\* GetResult returned blob.
Deliver(blob) ==
  IF owed # <<>> /\ Head(owed) = blob
    THEN Record(Tail(owed), stray)
    ELSE Record(owed, TRUE)

Keep == Record(owed, stray)

\* ------------------------------------------------------------------ Execute
\* The test of line 70.
ExecuteSeesCanceled == is_canceled_

\* GetResult without the test of line 107.
GetResultSeesCanceled_Never == FALSE

\* The test of line 107.
GetResultSeesCanceled == is_canceled_

\* PgDocOp::Execute, lines 70-72: is_canceled_ is read before mtx_ is taken.
ExecuteBegin ==
  /\ Running
  /\ cpc = "idle"
  /\ IF ExecuteSeesCanceled
       THEN /\ ret' = Return("execute", Canceled, FALSE)
            /\ cpc' = cpc
            /\ run' = "other"
       ELSE /\ cpc' = "exec_lock"
            /\ ret' = ret
            /\ run' = IF run = "new" THEN "scan" ELSE "other"
  /\ UNCHANGED <<envvars, opvars, apc, out_blob>>
  /\ Keep

\* Lines 100-102 of InitUnlocked, then lines 85-87 of Execute.
ExecuteFinish(o) ==
  LET r == SendRequestUnlocked(InitUnlocked(Cur), o)
  IN /\ Commit(r.s)
     /\ cpc' = "idle"
     /\ ret' = Return("execute", r.st, IsOk(r.st) /\ r.s.waiting_for_response_)
     /\ run' = After(r.st)
     /\ UNCHANGED <<envvars, apc, out_blob>>
     /\ Keep

\* Execute from line 74: mtx_ is taken, InitUnlocked checks is_canceled_
\* and waiting_for_response_ (lines 91-99).
ExecuteLocked ==
  /\ Running
  /\ cpc = "exec_lock"
  /\ \/ /\ is_canceled_
        /\ crashed' = "CHECK(!is_canceled_)"
        /\ UNCHANGED <<envvars, is_canceled_, waiting_for_response_, exec_status_,
                       end_of_data_, has_cached_data_, result_cache_,
                       rows_affected_count_, read_ops_, partition_exprs_,
                       next_op_idx_, can_produce_more_ops_, callback,
                       exec_params_, template_op_,
                       thrvars, histvars>>
     \/ /\ ~is_canceled_
        /\ waiting_for_response_
        \* LOG(DFATAL) ends the process in a debug build ...
        /\ crashed' = "LOG(DFATAL)"
        /\ UNCHANGED <<envvars, is_canceled_, waiting_for_response_, exec_status_,
                       end_of_data_, has_cached_data_, result_cache_,
                       rows_affected_count_, read_ops_, partition_exprs_,
                       next_op_idx_, can_produce_more_ops_, callback,
                       exec_params_, template_op_,
                       thrvars, histvars>>
     \/ /\ ~is_canceled_
        /\ waiting_for_response_
        \* ... and only logs in a release build: cv_.wait(*lock).
        /\ cpc' = "exec_wait"
        /\ UNCHANGED <<envvars, opvars, apc, out_blob, ret, histvars>>
     \/ /\ ~is_canceled_
        /\ ~waiting_for_response_
        /\ \E o \in SendOutcomes : ExecuteFinish(o)

\* The consumer leaves the loop of lines 95-97: every statement that clears
\* waiting_for_response_ where a waiter can see it is followed by
\* cv_.notify_all() under the same lock (lines 333-334, 421-422).
ExecuteResume ==
  /\ Running
  /\ cpc = "exec_wait"
  /\ ~waiting_for_response_
  /\ \E o \in SendOutcomes : ExecuteFinish(o)

\* ------------------------------------------------------------------ GetResult
\* GetResult from line 121: the status check, ReadFromCacheUnlocked and the
\* prefetch of line 128.  s is the op, result is *result_set.
FetchFinish(s, result, o) ==
  IF ~IsOk(s.exec_status_)
    THEN /\ Commit(s)
         /\ ret' = Return("fetch", s.exec_status_, FALSE)
         /\ out_blob' = result
         /\ run' = After(s.exec_status_)
         /\ Keep
    ELSE LET rd == ReadFromCacheUnlocked(s, result)
             r  == SendRequestIfNeededUnlocked(rd.s, o)
         IN /\ Commit(r.s)
            /\ ret' = Return("fetch", r.st, FALSE)
            /\ out_blob' = rd.out
            /\ run' = After(r.st)
            /\ IF s.result_cache_ # <<>> THEN Deliver(rd.out) ELSE Keep

\* GetResult, lines 106-119, up to the first cv_.wait or the return.
\* result is what the caller's string holds at the call.
FetchBegin(result, o1, o2) ==
  /\ Running
  /\ cpc = "idle"
  /\ UNCHANGED <<envvars, apc>>
  /\ IF GetResultSeesCanceled
       THEN /\ ret' = Return("fetch", Canceled, FALSE)
            /\ out_blob' = result
            /\ run' = "other"
            /\ UNCHANGED <<opvars, cpc>>
            /\ Keep
     ELSE IF ~IsOk(exec_status_)
       THEN /\ ret' = Return("fetch", exec_status_, FALSE)
            /\ out_blob' = result
            /\ run' = "other"
            /\ UNCHANGED <<opvars, cpc>>
            /\ Keep
     ELSE LET r == SendRequestIfNeededUnlocked(Cur, o1)
          IN IF ~IsOk(r.st)
               THEN /\ Commit(r.s)
                    /\ ret' = Return("fetch", r.st, FALSE)
                    /\ out_blob' = result
                    /\ run' = "other"
                    /\ cpc' = cpc
                    /\ Keep
             ELSE IF r.s.crashed = "no" /\ ~r.s.has_cached_data_ /\ ~r.s.end_of_data_
               THEN /\ Commit(r.s)
                    /\ cpc' = "fetch_wait"
                    /\ out_blob' = result
                    /\ run' = After(OkStatus)
                    /\ ret' = ret
                    /\ Keep
             ELSE /\ FetchFinish(r.s, result, o2)
                  /\ cpc' = cpc

\* The consumer leaves the loop of lines 117-119: has_cached_data_ and
\* end_of_data_ become true only in ReceiveResponse, which notifies.
FetchResume ==
  /\ Running
  /\ cpc = "fetch_wait"
  /\ has_cached_data_ \/ end_of_data_
  /\ UNCHANGED <<envvars, apc>>
  /\ cpc' = "idle"
  /\ \E o \in SendOutcomes : FetchFinish(Cur, out_blob, o)

\* PgDocOp::EndOfResult: what the call returns in the current state.
EndOfResultValue ==
  IF ~IsOk(exec_status_)
    THEN Return("end_of_result", exec_status_, FALSE)
    ELSE Return("end_of_result", OkStatus, ~has_cached_data_ /\ end_of_data_)

\* PgDocOp::EndOfResult is const: the consumer calls it and nothing changes.
EndOfResult ==
  /\ Running
  /\ cpc = "idle"
  /\ EndOfResultValue.call = "end_of_result"
  /\ UNCHANGED vars

\* ------------------------------------------------------------------ AbortAndWait
\* PgDocOp::AbortAndWait, lines 48-52, up to the first cv_.wait or the return.
AbortBegin ==
  /\ Running
  /\ apc \in {"idle", "returned"}
  /\ is_canceled_' = TRUE
  /\ apc' = IF waiting_for_response_ THEN "wait" ELSE "returned"
  /\ UNCHANGED <<envvars, waiting_for_response_, exec_status_, end_of_data_,
                 has_cached_data_, result_cache_, rows_affected_count_, read_ops_,
                 partition_exprs_, next_op_idx_, can_produce_more_ops_, callback,
                 exec_params_, template_op_,
                 crashed, cpc, out_blob, ret>>
  /\ run' = "other"
  /\ Keep

\* AbortAndWait returning without the loop of lines 52-54.
AbortResume_NoWait ==
  /\ Running
  /\ apc = "wait"
  /\ apc' = "returned"
  /\ UNCHANGED <<envvars, opvars, cpc, out_blob, ret, histvars>>

\* The canceller leaves the loop of lines 52-54.
AbortResume ==
  /\ Running
  /\ apc = "wait"
  /\ ~waiting_for_response_
  /\ apc' = "returned"
  /\ UNCHANGED <<envvars, opvars, cpc, out_blob, ret, histvars>>

\* ------------------------------------------------------------------ ReceiveResponse
\* The storage session runs the callback of an accepted flush:
\* PgDocReadOp::ReceiveResponse or PgDocWriteOp::ReceiveResponse.
ReceiveResponse ==
  /\ Running
  /\ callback > 0
  /\ UNCHANGED <<envvars, cpc, apc, out_blob, ret>>
  /\ \E exec_status \in FlushStatuses :
       \E resps \in BatchResponses :
         LET s == IF kind = "read"
                    THEN ReadReceiveResponse(Cur, exec_status, resps)
                    ELSE WriteReceiveResponse(Cur, exec_status, resps)
             ops == IF kind = "read" THEN read_ops_ ELSE <<write_op_>>
         IN /\ Commit(s)
            /\ run' = After(s.exec_status_)
            /\ Produce(IF IsOk(exec_status) THEN BlobsOf(ops, resps) ELSE <<>>)

Next ==
  \/ ExecuteBegin
  \/ ExecuteLocked
  \/ ExecuteResume
  \/ \E result \in {Empty, out_blob} : \E o1, o2 \in SendOutcomes :
       FetchBegin(result, o1, o2)
  \/ FetchResume
  \/ EndOfResult
  \/ AbortBegin
  \/ AbortResume
  \/ ReceiveResponse

Spec == Init /\ [][Next]_vars

\* The storage session runs the callback of every flush it accepted, and a
\* canceller that can leave its wait is scheduled.
LiveSpec ==
  /\ Spec
  /\ WF_vars(ReceiveResponse)
  /\ WF_vars(AbortResume)

\* Steps of the consumer, for the statements below.
FetchCall ==
  \E result \in {Empty, out_blob} : \E o1, o2 \in SendOutcomes :
    FetchBegin(result, o1, o2)

ExecuteReturns ==
  (ExecuteBegin \/ ExecuteLocked \/ ExecuteResume) /\ cpc' = "idle" /\ crashed' = "no"

FetchReturns ==
  (FetchCall \/ FetchResume) /\ cpc' = "idle" /\ crashed' = "no"


\* ==================================================================== claims

\* C1: in a run of a read op with one Execute, no cancellation and no error,
\* the blobs GetResult returns are the non-empty rows-blobs of the responses,
\* in the order of the rounds and of read_ops_ within a round: no returned
\* blob is out of turn, the blobs not yet returned are exactly the cache,
\* and none is left when EndOfResult answers true.
C1_ResultsInOrder ==
  (kind = "read" /\ Clean) =>
    /\ ~stray
    /\ owed = result_cache_
    /\ (EndOfResultValue.val => owed = <<>>)

\* A three-round scan over six partitions was read to its end.
C1_Witness ==
  /\ kind = "read" /\ Clean /\ part_cols = <<2, 3>>
  /\ run = "scan" /\ cpc = "idle" /\ ret.call = "fetch"
  /\ EndOfResultValue.val
  /\ out_blob = <<[perm |-> <<1, 2>>, page |-> 1]>>

\* C6: no dispatch starts while a request is in flight and every callback
\* runs while one is: neither CHECK on waiting_for_response_ ever fails, at
\* most one callback is outstanding, and one is outstanding exactly when
\* waiting_for_response_ is set.
C6_OneRequestInFlight ==
  /\ crashed \notin {"CHECK(!waiting_for_response_)", "CHECK(waiting_for_response_)"}
  /\ callback <= 1
  /\ waiting_for_response_ <=> (callback = 1)

\* A second request is in flight after the first one was answered, with the
\* canceller waiting for it.
C6_Witness ==
  /\ waiting_for_response_ /\ callback = 1
  /\ kind = "read" /\ Len(read_ops_) = 2 /\ read_ops_[1].page = 1
  /\ apc = "wait"

\* C7: has_cached_data_ holds exactly when result_cache_ is not empty.
C7_HasCachedData == has_cached_data_ <=> (result_cache_ # <<>>)

\* GetResult took one of two cached blobs.
C7_Witness ==
  /\ has_cached_data_ /\ Len(result_cache_) = 1
  /\ ret.call = "fetch" /\ IsOk(ret.status) /\ out_blob # Empty
  /\ out_blob # result_cache_[1]
  /\ cpc = "idle" /\ ~waiting_for_response_

\* C10: a read op never holds, and so never submits, more live sub-requests
\* than FLAGS_ysql_request_limit, survivors of a paging continuation and
\* newly unrolled ones together.
C10_RequestLimit ==
  kind = "read" => Len(read_ops_) <= FLAGS_ysql_request_limit

\* A dispatch of one survivor and one newly unrolled sub-request, with
\* permutations left over.
C10_Witness ==
  /\ kind = "read" /\ waiting_for_response_
  /\ Len(read_ops_) = FLAGS_ysql_request_limit
  /\ read_ops_[1].page = 1 /\ read_ops_[2].page = 0
  /\ can_produce_more_ops_


\* C2: a GetResult that waits with an empty cache and end_of_data_ false on
\* an op that is not cancelled has a request in flight, so that a callback
\* will wake it.
C2_BlockedFetchHasRequest ==
  (cpc = "fetch_wait" /\ ~is_canceled_ /\ crashed = "no"
     /\ ~has_cached_data_ /\ ~end_of_data_)
    => waiting_for_response_

\* C3: once exec_status_ is not OK it stays not OK, and every Execute,
\* GetResult and EndOfResult that returns afterwards returns it.
C3_StatusSticky ==
  [][~IsOk(exec_status_) =>
       /\ ~IsOk(exec_status_')
       /\ EndOfResultValue.status = exec_status_
       /\ (ExecuteReturns \/ FetchReturns) => ret'.status = exec_status_]_vars

\* C4: is_canceled_ is never cleared, and an Execute or GetResult called
\* with it set returns IllegalState, leaves the op as it is (no dispatch,
\* nothing taken from the cache) and leaves the caller's string as passed.
C4_CanceledCallsFail ==
  [][/\ is_canceled_ => is_canceled_'
     /\ (is_canceled_ /\ ExecuteBegin) =>
          /\ ret' = Return("execute", Canceled, FALSE)
          /\ cpc' = "idle"
          /\ UNCHANGED <<opvars, out_blob>>
     /\ (is_canceled_ /\ FetchCall) =>
          /\ ret' = Return("fetch", Canceled, FALSE)
          /\ cpc' = "idle"
          /\ UNCHANGED opvars
          /\ out_blob' \in {Empty, out_blob}]_vars

\* GetResult was refused on a cancelled op whose cache holds data.
C4_Witness ==
  /\ is_canceled_ /\ result_cache_ # <<>>
  /\ ret = Return("fetch", Canceled, FALSE)
  /\ cpc = "idle"

\* C5: AbortAndWait returns only when no request is in flight, at once when
\* none is at the call; the callback of the request in flight leaves the
\* test of line 52 false; a call on an op already cancelled changes nothing
\* of the op; and a waiting AbortAndWait returns (unless a CHECK ended the
\* process first).
C5_AbortAndWait ==
  /\ [][/\ (apc # "returned" /\ apc' = "returned") => ~waiting_for_response_'
        /\ (AbortBegin /\ ~waiting_for_response_) => apc' = "returned"
        /\ (ReceiveResponse /\ apc = "wait") => ~waiting_for_response_'
        /\ (AbortBegin /\ is_canceled_) => UNCHANGED <<opvars, cpc, out_blob, ret>>]_vars
  /\ (apc = "wait") ~> (apc = "returned" \/ crashed # "no")

\* AbortAndWait returned after the callback of the request that was in
\* flight drained the response: rows discarded, end_of_data_ set.
C5_Witness ==
  /\ apc = "returned" /\ is_canceled_ /\ ~waiting_for_response_
  /\ kind = "read" /\ end_of_data_ /\ IsOk(exec_status_)
  /\ read_ops_ # <<>> /\ result_cache_ = <<>>

\* C8, as claimed: once end_of_data_ is true it is true in every later state.
C8_EndOfDataMonotone == [][end_of_data_ => end_of_data_']_vars

\* C8, amended: end_of_data_ goes from true to false only in the step of
\* Execute that runs InitUnlocked; GetResult, AbortAndWait and the
\* callbacks never clear it.
C8_EndOfDataUntilExecute ==
  [][(end_of_data_ /\ ~end_of_data_') => (ExecuteLocked \/ ExecuteResume)]_vars

\* An Execute returned having cleared the end_of_data_ that a failed
\* response had set (exec_status_ is set with end_of_data_ and never reset).
C8_Witness ==
  /\ ~end_of_data_ /\ ~IsOk(exec_status_)
  /\ cpc = "idle" /\ ret.call = "execute" /\ IsOk(ret.status)

\* C9: a GetResult that returns OK took exactly the front blob of the cache
\* and returned it, or, with the cache empty at end of data, returns an
\* empty string whatever the caller's string held.
C9_FetchTakesFront ==
  [][(FetchReturns /\ IsOk(ret'.status)) =>
       \/ /\ result_cache_ # <<>>
          /\ out_blob' = Head(result_cache_)
          /\ result_cache_' = Tail(result_cache_)
       \/ /\ result_cache_ = <<>>
          /\ out_blob' = Empty
          /\ result_cache_' = <<>>]_vars

\* ------------------------------------------------------------------ fan-out
\* The Cartesian product of the operand lists of the hash columns (operands
\* numbered from 0), and the position of a tuple in it when the tuples are
\* listed in lexicographic order, first column most significant.
Tuples ==
  {t \in [1 .. Len(part_cols) -> 0 .. 2] :
     \A c \in 1 .. Len(part_cols) : t[c] < part_cols[c]}

LexLess(a, b) ==
  \E c \in 1 .. Len(part_cols) :
    a[c] < b[c] /\ \A d \in 1 .. c - 1 : a[d] = b[d]

LexRank(t) == Cardinality({u \in Tuples : LexLess(u, t)})

\* C11: for a read with partition expressions, next_op_idx_ never
\* decreases and never exceeds the size of the Cartesian product; a step
\* that advances it by n appends n sub-requests to read_ops_, the j-th of
\* them the tuple of lexicographic rank next_op_idx_ + j - 1 (so each tuple
\* is created once, in lexicographic order); sub-requests are created in no
\* other way; and can_produce_more_ops_ is false only when every tuple has
\* been created.
C11_FanOutLexOrder ==
  [][(kind = "read" /\ Len(part_cols) > 0) =>
       LET n   == next_op_idx_' - next_op_idx_
           old == Len(read_ops_)
       IN /\ n >= 0
          /\ next_op_idx_' <= Cardinality(Tuples)
          /\ Len(read_ops_') <= old + n
          /\ n > 0 =>
               /\ Len(read_ops_') = old + n
               /\ SubSeq(read_ops_', 1, old) = read_ops_
               /\ \A j \in 1 .. n :
                    /\ read_ops_'[old + j].perm \in Tuples
                    /\ LexRank(read_ops_'[old + j].perm) = next_op_idx_ + j - 1
          /\ ~can_produce_more_ops_' => next_op_idx_' = Cardinality(Tuples)]_vars

\* The last two tuples of a 2 x 3 product were created by the third
\* dispatch and are in flight.
C11_Witness ==
  /\ kind = "read" /\ part_cols = <<2, 3>>
  /\ next_op_idx_ = 6 /\ ~can_produce_more_ops_
  /\ waiting_for_response_
  /\ Len(read_ops_) = 2
  /\ read_ops_[1].perm = <<1, 1>> /\ read_ops_[2].perm = <<1, 2>>
  /\ read_ops_[1].page = 0 /\ read_ops_[2].page = 0

\* ------------------------------------------------------------------ scans
\* The SQL layer's loop: the callback of every accepted flush runs, a
\* consumer that is idle calls GetResult again, and a consumer that holds
\* or can take mtx_ goes on.
ScanSpec ==
  /\ Spec
  /\ WF_vars(ReceiveResponse)
  /\ WF_vars(FetchCall)
  /\ WF_vars(FetchResume)
  /\ WF_vars(ExecuteLocked)
  /\ WF_vars(ExecuteResume)

\* The sub-requests of read_ops_ whose response in resps has a paging
\* state, in their order, each with the continuation installed.
KeptOps(resps) ==
  LET tagged == [i \in 1 .. Len(read_ops_) |->
                   [op |-> read_ops_[i], keep |-> resps[i].paging]]
      sel    == SelectSeq(tagged, LAMBDA x : x.keep)
  IN [i \in 1 .. Len(sel) |-> [sel[i].op EXCEPT !.page = @ + 1]]

\* A read callback on an op that is not cancelled, leaving exec_status_ OK,
\* keeps exactly the sub-requests with a paging state and sets end_of_data_
\* to (read_ops_ empty and can_produce_more_ops_ false).
C12_Removal ==
  (ReceiveResponse /\ kind = "read" /\ ~is_canceled_ /\ IsOk(exec_status_')
     /\ crashed' = "no") =>
    /\ \E resps \in BatchResponses :
         /\ \A i \in 1 .. Len(resps) : Succeeded(resps[i])
         /\ read_ops_' = KeptOps(resps)
         /\ result_cache_' = result_cache_ \o BlobsOf(read_ops_, resps)
    /\ UNCHANGED can_produce_more_ops_
    /\ end_of_data_' = (read_ops_' = <<>> /\ ~can_produce_more_ops_')

\* Without error and cancellation, end_of_data_ is not true while a
\* sub-request is live or a permutation is left.
C12_EndOfData ==
  (kind = "read" /\ IsOk(exec_status_) /\ ~is_canceled_ /\ end_of_data_) =>
    /\ read_ops_ = <<>>
    /\ ~can_produce_more_ops_
    /\ Len(part_cols) > 0 => next_op_idx_ = Cardinality(Tuples)

\* In a scan (Execute called first and once, no error, no cancellation),
\* permutations left over by the request limit are issued later.
C12_Issued ==
  (kind = "read" /\ run = "scan" /\ can_produce_more_ops_)
    ~> (~can_produce_more_ops_ \/ run = "other" \/ crashed # "no")

\* C12: after a successful read response on an op that is not cancelled the
\* sub-requests without a paging continuation are removed and the others
\* kept, end_of_data_ = (read_ops_ empty and can_produce_more_ops_ false),
\* end_of_data_ is never true while work is left, and the permutations the
\* request limit left over are issued by a later dispatch.
C12_ReadResponse ==
  /\ [][C12_Removal]_vars
  /\ []C12_EndOfData
  /\ C12_Issued


\* C13: a callback that runs on a cancelled op adds nothing to the cache,
\* sets end_of_data_ and clears waiting_for_response_; and no step taken
\* with is_canceled_ set makes the cache longer.
C13_CanceledCallbackDiscards ==
  [][/\ (ReceiveResponse /\ is_canceled_) =>
          /\ result_cache_' = result_cache_
          /\ has_cached_data_' = has_cached_data_
          /\ end_of_data_'
          /\ ~waiting_for_response_'
          /\ crashed' = "no"
     /\ is_canceled_ => Len(result_cache_') <= Len(result_cache_)]_vars

\* AbortAndWait found two sub-requests in flight and is still waiting; their
\* callback has run, cached nothing and set end_of_data_.
C13_Witness ==
  /\ apc = "wait" /\ is_canceled_ /\ ~waiting_for_response_ /\ callback = 0
  /\ kind = "read" /\ Len(read_ops_) = 2
  /\ end_of_data_ /\ result_cache_ = <<>> /\ IsOk(exec_status_)


\* C14: a read callback (the only step that lowers callback) given a failed
\* flush status, or a batch in which some sub-request failed, leaves
\* exec_status_ not OK, sets end_of_data_ and caches nothing of the batch,
\* whatever the other sub-requests carried; and a GetResult that is called, or
\* wakes up, with exec_status_ not OK on an op that is not cancelled returns
\* that status, takes nothing from the cache and leaves the caller's string.
C14_FailedBatchDiscarded ==
  [][/\ (kind = "read" /\ callback' < callback) =>
          \A exec_status \in FlushStatuses : \A resps \in BatchResponses :
            (/\ ~IsOk(exec_status) \/ \E i \in 1 .. Len(resps) : ~Succeeded(resps[i])
             /\ Commit(ReadReceiveResponse(Cur, exec_status, resps)))
            => /\ ~IsOk(exec_status_')
               /\ end_of_data_'
               /\ ~waiting_for_response_'
               /\ result_cache_' = result_cache_
               /\ has_cached_data_' = has_cached_data_
     /\ (~IsOk(exec_status_) /\ ~is_canceled_ /\ (FetchCall \/ FetchResume))
          => /\ ret' = Return("fetch", exec_status_, FALSE)
             /\ cpc' = "idle"
             /\ UNCHANGED opvars
             /\ out_blob' \in {Empty, out_blob}]_vars

\* The second of two sub-requests failed, the first had rows; the waiting
\* GetResult returned the error with the cache empty.
C14_Witness ==
  /\ kind = "read" /\ Len(read_ops_) = 2
  /\ exec_status_.code = "QLError" /\ end_of_data_
  /\ result_cache_ = <<>> /\ ~is_canceled_
  /\ cpc = "idle" /\ ret = Return("fetch", exec_status_, FALSE)
  /\ out_blob = Empty


\* C15: for a write the session reports as buffered, SendRequestUnlocked
\* returns OK and changes no field of the op (waiting_for_response_ stays
\* false, no callback is registered, end_of_data_, exec_status_ and the
\* cache are as they were); and an Execute whose dispatch is buffered
\* returns OK with RequestSent false.
C15_BufferedWrite ==
  /\ []((kind = "write" /\ ~waiting_for_response_) =>
          WriteSendRequestUnlocked(Cur, "buffered") = [s |-> Cur, st |-> OkStatus])
  /\ [][(kind = "write" /\ cpc \in {"exec_lock", "exec_wait"}
           /\ ExecuteFinish("buffered")) =>
          /\ ret' = Return("execute", OkStatus, FALSE)
          /\ ~waiting_for_response_'
          /\ callback' = callback
          /\ exec_status_' = exec_status_]_vars

\* Execute on a write op returned OK and "not sent": the write was buffered.
C15_Witness ==
  /\ kind = "write" /\ cpc = "idle"
  /\ ret = Return("execute", OkStatus, FALSE)
  /\ ~waiting_for_response_ /\ callback = 0
  /\ ~end_of_data_ /\ result_cache_ = <<>>


\* ------------------------------------------------------------------ sizing
\* The execution parameters the SQL layer can pass: LIMIT count and offset,
\* whether the LIMIT is the default one, and a row mark or none.
ExecParams ==
  [limit_count: 0 .. MaxLimit, limit_offset: 0 .. 1,
   limit_use_default: BOOLEAN, rowmark: {-1, 1}]

\* PgDocOp::SetExecParams, called by the consumer between its other calls;
\* exec_params is <<>> for the null pointer and <<p>> for a pointer to p.
SetExecParams(exec_params) ==
  /\ Running
  /\ cpc = "idle"
  /\ exec_params_' = IF exec_params # <<>> THEN exec_params[1] ELSE exec_params_
  /\ UNCHANGED <<envvars, thrvars, histvars, is_canceled_, waiting_for_response_,
                 exec_status_, end_of_data_, has_cached_data_, result_cache_,
                 rows_affected_count_, read_ops_, partition_exprs_, next_op_idx_,
                 can_produce_more_ops_, callback, crashed, template_op_>>

\* A read without partition columns, for every flag value, scale factor and
\* scan direction tried.
SizingInit ==
  /\ kind = "read"
  /\ part_cols = <<>>
  /\ is_forward_scan \in BOOLEAN
  /\ fail_responses = FailResponses
  /\ FLAGS_ysql_prefetch_limit \in -1 .. MaxLimit
  /\ FLAGS_ysql_backward_prefetch_scale_factor \in
       {[num |-> 1, den |-> 2], [num |-> 0, den |-> 1]}
  /\ InitOp

SizingNext ==
  \/ \E exec_params \in {<<>>} \cup {<<p>> : p \in ExecParams} :
       SetExecParams(exec_params)
  \/ ExecuteBegin
  \/ ExecuteLocked
  \/ ExecuteResume
  \/ ReceiveResponse

SizingSpec == SizingInit /\ [][SizingNext]_vars

\* C16, as claimed: the limit of the template request is at least 1 while a
\* request dispatched with it is in flight.
C16_PrefetchLimitAtLeastOne ==
  (kind = "read" /\ waiting_for_response_) => template_op_.limit >= 1

\* C16, amended: at every accepted dispatch of a read the limit applied is
\* at least 1 when limit_use_default is set or limit_count + limit_offset
\* is at least 1, and is limit_count + limit_offset (so 0) otherwise; it
\* never exceeds the larger of 1 and FLAGS_ysql_prefetch_limit.
C16_PrefetchLimitSized ==
  [][(kind = "read" /\ callback' > callback) =>
       LET sum == exec_params_.limit_count + exec_params_.limit_offset
       IN /\ IF exec_params_.limit_use_default \/ sum >= 1
               THEN template_op_'.limit >= 1
               ELSE template_op_'.limit = sum
          /\ template_op_'.limit <= IF FLAGS_ysql_prefetch_limit > 1
                                      THEN FLAGS_ysql_prefetch_limit ELSE 1]_vars

\* A backward scan with FLAGS_ysql_prefetch_limit 1 scaled down to 0 was
\* dispatched with the default LIMIT: the limit applied is the floor, 1.
C16_Witness ==
  /\ kind = "read" /\ waiting_for_response_
  /\ ~is_forward_scan /\ FLAGS_ysql_prefetch_limit = 1
  /\ FLAGS_ysql_backward_prefetch_scale_factor = [num |-> 1, den |-> 2]
  /\ exec_params_ = InitialExecParams
  /\ template_op_.limit = 1


\* ------------------------------------------------------------------ failures
\* An op with one request (a write, or a read without partition columns)
\* against a storage layer that can fail in every way.
StatusInit ==
  /\ kind \in {"read", "write"}
  /\ part_cols = <<>>
  /\ is_forward_scan = TRUE
  /\ fail_responses = AllFailResponses
  /\ FLAGS_ysql_prefetch_limit = MaxLimit
  /\ FLAGS_ysql_backward_prefetch_scale_factor = [num |-> 1, den |-> 2]
  /\ InitOp

StatusSpec == StatusInit /\ [][Next]_vars

\* The status the claim gives for a failed response.
StatusFor(resp) ==
  [code |-> IF resp.status = "DUPLICATE_KEY_ERROR" THEN "AlreadyPresent" ELSE "QLError",
   msg  |-> resp.msg,
   pg   |-> IF resp.pg = "absent" THEN "INTERNAL_ERROR" ELSE resp.pg,
   txn  |-> IF resp.txn = "absent" THEN "kNone" ELSE resp.txn]

\* C17: a callback (the only step that lowers callback) given an OK flush
\* status and a batch with a failed response leaves in exec_status_ the
\* status of the last failed response: AlreadyPresent for a duplicate-key
\* error and QLError otherwise, with the response's message, its
\* pg_error_code or INTERNAL_ERROR, and its txn_error_code or kNone; and a
\* GetResult that is called or wakes up on a write op that is not
\* cancelled with exec_status_ AlreadyPresent returns that status.
C17_FailureStatus ==
  [][/\ callback' < callback =>
          \A resps \in BatchResponses :
            LET failed == {i \in 1 .. Len(resps) : ~Succeeded(resps[i])}
                s == IF kind = "read"
                       THEN ReadReceiveResponse(Cur, OkStatus, resps)
                       ELSE WriteReceiveResponse(Cur, OkStatus, resps)
            IN (failed # {} /\ Commit(s)) =>
                 \E i \in failed :
                   /\ \A j \in failed : j <= i
                   /\ exec_status_' = StatusFor(resps[i])
     /\ (kind = "write" /\ exec_status_.code = "AlreadyPresent" /\ ~is_canceled_
           /\ (FetchCall \/ FetchResume))
          => /\ ret' = Return("fetch", exec_status_, FALSE)
             /\ cpc' = "idle"]_vars

\* GetResult on a write op returned AlreadyPresent for a duplicate-key
\* response that had no pg_error_code and had a txn_error_code.
C17_Witness ==
  /\ kind = "write" /\ cpc = "idle" /\ ~is_canceled_
  /\ ret = Return("fetch",
                  [code |-> "AlreadyPresent", msg |-> "dup",
                   pg |-> "INTERNAL_ERROR", txn |-> "kConflict"], FALSE)
  /\ exec_status_ = ret.status


\* C18: every accepted dispatch leaves the cache empty, the cache is empty
\* whenever a request is in flight, and the cache never holds more blobs
\* than one dispatch has sub-requests: FLAGS_ysql_request_limit for a read
\* op, 1 for a write op.
C18_CacheBounded ==
  /\ [](waiting_for_response_ => result_cache_ = <<>>)
  /\ [](Len(result_cache_) <= IF kind = "read" THEN FLAGS_ysql_request_limit ELSE 1)
  /\ [][callback' > callback => result_cache_' = <<>>]_vars

\* The responses to a full dispatch all carried rows, and permutations
\* are left for the next dispatch.
C18_Witness ==
  /\ kind = "read" /\ ~waiting_for_response_
  /\ Len(result_cache_) = FLAGS_ysql_request_limit
  /\ can_produce_more_ops_ /\ ~end_of_data_


\* C19: CHECK(!is_canceled_) in InitUnlocked (line 91) never fails, also
\* when AbortAndWait runs on another thread while Execute is being called.
C19_InitNotCanceled == crashed # "CHECK(!is_canceled_)"

\* C20: CHECK(!read_ops_.empty() || can_produce_more_ops_) in
\* PgDocReadOp::SendRequestUnlocked (line 306) never fails, also when
\* Execute is called again on a read op whose scan reached end of data.
C20_ReadDispatchHasWork ==
  crashed # "CHECK(!read_ops_.empty() || can_produce_more_ops_)"

====
